---- MODULE Spec2Model ----
(***************************************************************************)
(* Page permission resolution of django-cms (cms/utils/page_permissions.py) *)
(*                                                                         *)
(* The state is what the module reads and writes: the settings, the grant  *)
(* records behind has_global_permission and get_page_actions_for_user, the *)
(* view restrictions and plugin permissions of the page tree, the          *)
(* permission cache, and the record of the call being served.  A request   *)
(* makes one call with a principal object of its own, so the per-object    *)
(* memoization of cached_func starts empty at every call.                   *)
(***************************************************************************)
EXTENDS Integers, FiniteSets, Sequences, TLC

VARIABLES
    settings,       \* get_cms_setting: [PERMISSION, PUBLIC_FOR]
    restricted,     \* pks of the draft pages with view restrictions
    denied,         \* <<placeholder, language>>: plugins the principal may not delete
    globalGrants,   \* <<user id, site, action>> for which has_global_permission holds
    pageActions,    \* get_page_actions_for_user: [user id -> [site -> [action -> page ids]]]
    cache,          \* the permission cache: <<user id, action>> -> list of page ids
    last,           \* the call being served and its outcome; NoCall between requests
    race            \* two requests inside _get_page_ids_for_action at once; NoRace else

vars == <<settings, restricted, denied, globalGrants, pageActions, cache, last, race>>

env == <<settings, restricted, denied, globalGrants, pageActions>>

-----------------------------------------------------------------------------
(* Bounds *)

\* the permission cache holds at most this many entries
MaxCached == 2

-----------------------------------------------------------------------------
(* Constants of the module *)

PAGE_ADD_CODENAME == "cms.add_page"
PAGE_CHANGE_CODENAME == "cms.change_page"
PAGE_DELETE_CODENAME == "cms.delete_page"
PAGE_PUBLISH_CODENAME == "cms.publish_page"
PAGE_VIEW_CODENAME == "cms.view_page"

Codenames ==
    {PAGE_ADD_CODENAME, PAGE_CHANGE_CODENAME, PAGE_DELETE_CODENAME,
     PAGE_PUBLISH_CODENAME, PAGE_VIEW_CODENAME}

\* Maps an action to the required Django auth permission codes
DjangoPermissionsByAction ==
    [a \in {"add_page", "change_page", "change_page_advanced_settings",
            "change_page_permissions", "delete_page", "delete_page_translation",
            "move_page", "publish_page", "recover_page"} |->
        CASE a = "add_page" -> {PAGE_ADD_CODENAME, PAGE_CHANGE_CODENAME}
          [] a = "change_page" -> {PAGE_CHANGE_CODENAME}
          [] a = "change_page_advanced_settings" -> {PAGE_CHANGE_CODENAME}
          [] a = "change_page_permissions" -> {PAGE_CHANGE_CODENAME}
          [] a = "delete_page" -> {PAGE_CHANGE_CODENAME, PAGE_DELETE_CODENAME}
          [] a = "delete_page_translation" -> {PAGE_CHANGE_CODENAME, PAGE_DELETE_CODENAME}
          [] a = "move_page" -> {PAGE_CHANGE_CODENAME}
          [] a = "publish_page" -> {PAGE_CHANGE_CODENAME, PAGE_PUBLISH_CODENAME}
          [] a = "recover_page" -> {PAGE_ADD_CODENAME, PAGE_CHANGE_CODENAME}]

RegistryActions == DOMAIN DjangoPermissionsByAction

\* the actions get_page_actions_for_user reports page ids for
PageActionKeys ==
    {"add_page", "change_page", "change_page_advanced_settings",
     "change_page_permissions", "delete_page", "move_page", "publish_page",
     "view_page"}

\* the dispatch table of has_generic_permission: action -> grant set getter
\* the dispatch table with delete_page_translation sent to the change list
ActionsMap_translation_change ==
    [a \in PageActionKeys \cup {"delete_page_translation"} |->
        CASE a = "add_page" -> "get_add_id_list"
          [] a = "change_page" -> "get_change_id_list"
          [] a = "change_page_advanced_settings" -> "get_change_advanced_settings_id_list"
          [] a = "change_page_permissions" -> "get_change_permissions_id_list"
          [] a = "delete_page" -> "get_delete_id_list"
          [] a = "delete_page_translation" -> "get_change_id_list"
          [] a = "move_page" -> "get_move_page_id_list"
          [] a = "publish_page" -> "get_publish_id_list"
          [] a = "view_page" -> "get_view_id_list"]

ActionsMap ==
    [a \in PageActionKeys \cup {"delete_page_translation"} |->
        CASE a = "add_page" -> "get_add_id_list"
          [] a = "change_page" -> "get_change_id_list"
          [] a = "change_page_advanced_settings" -> "get_change_advanced_settings_id_list"
          [] a = "change_page_permissions" -> "get_change_permissions_id_list"
          [] a = "delete_page" -> "get_delete_id_list"
          [] a = "delete_page_translation" -> "get_delete_id_list"
          [] a = "move_page" -> "get_move_page_id_list"
          [] a = "publish_page" -> "get_publish_id_list"
          [] a = "view_page" -> "get_view_id_list"]

DispatchActions == DOMAIN ActionsMap

\* an action name neither table knows
UnknownAction == "no_such_action"

\* every action name a caller may hand to has_generic_permission
ActionNames == RegistryActions \cup DispatchActions \cup {UnknownAction}

\* the action each get_*_id_list getter hands to _get_page_ids_for_action
GetterAction ==
    [g \in {"get_add_id_list", "get_change_id_list",
            "get_change_advanced_settings_id_list", "get_change_permissions_id_list",
            "get_delete_id_list", "get_move_page_id_list", "get_publish_id_list",
            "get_view_id_list"} |->
        CASE g = "get_add_id_list" -> "add_page"
          [] g = "get_change_id_list" -> "change_page"
          [] g = "get_change_advanced_settings_id_list" -> "change_page_advanced_settings"
          [] g = "get_change_permissions_id_list" -> "change_page_permissions"
          [] g = "get_delete_id_list" -> "delete_page"
          [] g = "get_move_page_id_list" -> "move_page"
          [] g = "get_publish_id_list" -> "publish_page"
          [] g = "get_view_id_list" -> "view_page"]

Getters == DOMAIN GetterAction

\* GRANT_ALL_PERMISSIONS, and an explicit list of page ids
GRANT_ALL_PERMISSIONS == [all |-> TRUE, ids |-> {}]

\* an empty list taken for the grant-all mark
IdList_empty_all(ids) == [all |-> ids = {}, ids |-> ids]

\* an explicit list of page ids
IdList(ids) == [all |-> FALSE, ids |-> ids]

-----------------------------------------------------------------------------
(* The page tree the calls are made on *)

Sites == {"S1", "S2"}

NoSite == "None"

\* Site.objects.get_current()
CurrentSite == "S1"

Languages == {"en", "de"}

\* Page 1 is a draft with two translations; page 3 is its published version and
\* carries the published translation only.  Page 2 is a sibling draft, page 4 a
\* draft of another site.
Page ==
    [pk \in {1, 2, 3, 4} |->
        CASE pk = 1 -> [pk |-> 1, site |-> "S1", publisher_is_draft |-> TRUE,
                        publisher_public_id |-> 3, languages |-> {"en", "de"}]
          [] pk = 2 -> [pk |-> 2, site |-> "S1", publisher_is_draft |-> TRUE,
                        publisher_public_id |-> 0, languages |-> {"en"}]
          [] pk = 3 -> [pk |-> 3, site |-> "S1", publisher_is_draft |-> FALSE,
                        publisher_public_id |-> 1, languages |-> {"en"}]
          [] pk = 4 -> [pk |-> 4, site |-> "S2", publisher_is_draft |-> TRUE,
                        publisher_public_id |-> 0, languages |-> {"en"}]]

PageIds == DOMAIN Page

DraftIds == {pk \in PageIds : Page[pk].publisher_is_draft}

\* placeholders belong to draft pages; cmsplugin__language of their plugins
Placeholder ==
    [ph \in {"content", "sidebar", "footer"} |->
        CASE ph = "content" -> [page |-> 1, plugin_languages |-> {"en"}]
          [] ph = "sidebar" -> [page |-> 1, plugin_languages |-> {"de"}]
          [] ph = "footer" -> [page |-> 4, plugin_languages |-> {"en"}]]

PlaceholderIds == DOMAIN Placeholder

-----------------------------------------------------------------------------
(* Collaborators: the principal, the role records, the cache *)

\* has_perms that is content with one of the codes
has_perms_any(user, permissions) == permissions \cap user.perms # {}

\* user.has_perms(permissions)
has_perms(user, permissions) == permissions \subseteq user.perms

\* user.has_perm(codename)
has_perm(user, codename) == codename \in user.perms

\* cms.utils.permissions.has_global_permission(user, site, action=action)
has_global_permission(user, site, action) == <<user.id, site, action>> \in globalGrants

\* cms.utils.permissions.get_page_actions_for_user(user, site)
get_page_actions_for_user(user, site) == pageActions[user.id][site]

\* the key get_permission_cache / set_permission_cache are called with
CacheKey(user, action) == <<user.id, action>>

\* "if cached:" in place of "if cached is not None:"
IsCached_truthy(c, user, action) ==
    CacheKey(user, action) \in DOMAIN c /\ c[CacheKey(user, action)] # {}

\* get_permission_cache(user, action) is not None
IsCached(c, user, action) == CacheKey(user, action) \in DOMAIN c

\* get_permission_cache(user, action)
get_permission_cache(c, user, action) == c[CacheKey(user, action)]

\* set_permission_cache(user, action, page_ids): the cache after the write
set_permission_cache(c, user, action, page_ids) ==
    [k \in DOMAIN c \cup {CacheKey(user, action)} |->
        IF k = CacheKey(user, action) THEN page_ids ELSE c[k]]

\* the calls an evaluation made: to collaborators, and to has_generic_permission
CACHE_GET == "get_permission_cache"
CACHE_SET == "set_permission_cache"
GLOBAL == "has_global_permission"
AGGREGATE == "get_page_actions_for_user"
GENERIC == "has_generic_permission"

-----------------------------------------------------------------------------
(* Grant-set resolver *)

\* _get_page_ids_for_action asking has_global_permission whatever check_global is
GetPageIdsForAction_always_global(user, site, action, check_global, c) ==
    IF user.is_superuser \/ ~settings.PERMISSION
    THEN [ids |-> GRANT_ALL_PERMISSIONS, cache |-> c, eff |-> {}]
    ELSE IF IsCached(c, user, action)
    THEN [ids |-> IdList(get_permission_cache(c, user, action)), cache |-> c,
          eff |-> {CACHE_GET}]
    ELSE IF has_global_permission(user, site, action)
    THEN [ids |-> GRANT_ALL_PERMISSIONS, cache |-> c, eff |-> {CACHE_GET, GLOBAL}]
    ELSE LET page_ids == get_page_actions_for_user(user, site)[action]
         IN  [ids |-> IdList(page_ids),
              cache |-> set_permission_cache(c, user, action, page_ids),
              eff |-> {CACHE_GET, AGGREGATE, CACHE_SET, GLOBAL}]

\* _get_page_ids_for_action reading the cache before it looks at the user
GetPageIdsForAction_cache_first(user, site, action, check_global, c) ==
    IF IsCached(c, user, action)
    THEN [ids |-> IdList(get_permission_cache(c, user, action)), cache |-> c,
          eff |-> {CACHE_GET}]
    ELSE IF user.is_superuser \/ ~settings.PERMISSION
    THEN [ids |-> GRANT_ALL_PERMISSIONS, cache |-> c, eff |-> {CACHE_GET}]
    ELSE IF check_global /\ has_global_permission(user, site, action)
    THEN [ids |-> GRANT_ALL_PERMISSIONS, cache |-> c, eff |-> {CACHE_GET, GLOBAL}]
    ELSE LET page_ids == get_page_actions_for_user(user, site)[action]
         IN  [ids |-> IdList(page_ids),
              cache |-> set_permission_cache(c, user, action, page_ids),
              eff |-> {CACHE_GET, AGGREGATE, CACHE_SET}
                      \cup (IF check_global THEN {GLOBAL} ELSE {})]

\* _get_page_ids_for_action(user, site, action, check_global) on cache c:
\* the grant set returned, the cache left behind, the collaborators called
GetPageIdsForAction(user, site, action, check_global, c) ==
    IF user.is_superuser \/ ~settings.PERMISSION
    THEN [ids |-> GRANT_ALL_PERMISSIONS, cache |-> c, eff |-> {}]
    ELSE IF IsCached(c, user, action)
    THEN [ids |-> IdList(get_permission_cache(c, user, action)), cache |-> c,
          eff |-> {CACHE_GET}]
    ELSE IF check_global /\ has_global_permission(user, site, action)
    THEN [ids |-> GRANT_ALL_PERMISSIONS, cache |-> c, eff |-> {CACHE_GET, GLOBAL}]
    ELSE LET page_ids == get_page_actions_for_user(user, site)[action]
         IN  [ids |-> IdList(page_ids),
              cache |-> set_permission_cache(c, user, action, page_ids),
              eff |-> {CACHE_GET, AGGREGATE, CACHE_SET}
                      \cup (IF check_global THEN {GLOBAL} ELSE {})]

\* get_add_id_list ... get_view_id_list: each hands its own action on
GetIdList(getter, user, site, check_global, c) ==
    GetPageIdsForAction(user, site, GetterAction[getter], check_global, c)

\* page.pk for every page
PermissionIdentity_pk(page) == Page[page].pk

\* the identity a page is tested by: a draft's own pk, else its draft's
PermissionIdentity(page) ==
    IF Page[page].publisher_is_draft THEN Page[page].pk
    ELSE Page[page].publisher_public_id

\* an evaluation that ended with a boolean
Returned(ret, c, eff) == [ret |-> ret, raised |-> FALSE, cache |-> c, eff |-> eff]

\* an evaluation that ended in KeyError
Raised(c, eff) == [ret |-> FALSE, raised |-> TRUE, cache |-> c, eff |-> eff]

\* has_generic_permission denying an action its table lacks
HasGenericPermission_deny(page, user, action, site, check_global, c) ==
    LET site1 == IF site = NoSite THEN Page[page].site ELSE site
        page_id == PermissionIdentity(page)
    IN  IF action \notin DOMAIN ActionsMap
        THEN Returned(FALSE, c, {GENERIC})
        ELSE LET r == GetIdList(ActionsMap[action], user, site1, check_global, c)
             IN  Returned(r.ids.all \/ page_id \in r.ids.ids, r.cache,
                          r.eff \cup {GENERIC})

\* has_generic_permission(page, user, action, site, check_global) on cache c
HasGenericPermission(page, user, action, site, check_global, c) ==
    LET site1 == IF site = NoSite THEN Page[page].site ELSE site
        page_id == PermissionIdentity(page)
    IN  IF action \notin DOMAIN ActionsMap
        THEN Raised(c, {GENERIC})
        ELSE LET r == GetIdList(ActionsMap[action], user, site1, check_global, c)
             IN  Returned(r.ids.all \/ page_id \in r.ids.ids, r.cache,
                          r.eff \cup {GENERIC})

-----------------------------------------------------------------------------
(* Permission gates *)

\* the wrapper without its superuser step
permission_pre_checks_no_superuser(action, user, body, c) ==
    IF ~user.is_authenticated THEN Returned(FALSE, c, {})
    ELSE IF ~has_perms(user, DjangoPermissionsByAction[action])
    THEN Returned(FALSE, c, {})
    ELSE IF ~settings.PERMISSION THEN Returned(TRUE, c, {})
    ELSE body

\* the wrapper testing is_superuser before is_authenticated
permission_pre_checks_superuser_first(action, user, body, c) ==
    IF user.is_superuser THEN Returned(TRUE, c, {})
    ELSE IF ~user.is_authenticated THEN Returned(FALSE, c, {})
    ELSE IF ~has_perms(user, DjangoPermissionsByAction[action])
    THEN Returned(FALSE, c, {})
    ELSE IF ~settings.PERMISSION THEN Returned(TRUE, c, {})
    ELSE body

\* the wrapper without its PERMISSION step
permission_pre_checks_no_disabled(action, user, body, c) ==
    IF ~user.is_authenticated THEN Returned(FALSE, c, {})
    ELSE IF user.is_superuser THEN Returned(TRUE, c, {})
    ELSE IF ~has_perms(user, DjangoPermissionsByAction[action])
    THEN Returned(FALSE, c, {})
    ELSE body

\* permission_pre_checks(action): the wrapper around a gate's body
permission_pre_checks(action, user, body, c) ==
    IF ~user.is_authenticated THEN Returned(FALSE, c, {})
    ELSE IF user.is_superuser THEN Returned(TRUE, c, {})
    ELSE IF ~has_perms(user, DjangoPermissionsByAction[action])
    THEN Returned(FALSE, c, {})
    ELSE IF ~settings.PERMISSION THEN Returned(TRUE, c, {})
    ELSE body

user_can_add_page_body(user, site, c) ==
    LET site1 == IF site = NoSite THEN CurrentSite ELSE site
    IN  Returned(has_global_permission(user, site1, "add_page"), c, {GLOBAL})

user_can_add_page(user, site, c) ==
    permission_pre_checks("add_page", user, user_can_add_page_body(user, site, c), c)

user_can_add_subpage(user, target, site, c) ==
    permission_pre_checks("add_page", user,
        HasGenericPermission(target, user, "add_page", site, TRUE, c), c)

user_can_change_page(user, page, c) ==
    permission_pre_checks("change_page", user,
        HasGenericPermission(page, user, "change_page", NoSite, TRUE, c), c)

\* _get_draft_placeholders(page)
GetDraftPlaceholders(page) ==
    IF Page[page].publisher_is_draft
    THEN {ph \in PlaceholderIds : Placeholder[ph].page = Page[page].pk}
    ELSE {ph \in PlaceholderIds : Placeholder[ph].page = Page[page].publisher_public_id}

\* placeholder.has_delete_plugins_permission(user, languages)
has_delete_plugins_permission(ph, user, languages) ==
    \A l \in languages \cap Placeholder[ph].plugin_languages : <<ph, l>> \notin denied

\* .filter(cmsplugin__language__in=languages).distinct()
FilterByLanguages(placeholders, languages) ==
    {ph \in placeholders : Placeholder[ph].plugin_languages \cap languages # {}}

\* user_can_delete_page content with one placeholder that allows
user_can_delete_page_body_any(user, page, c) ==
    LET has_perm1 == HasGenericPermission(page, user, "delete_page", NoSite, TRUE, c)
        languages == Page[page].languages
        placeholders == FilterByLanguages(GetDraftPlaceholders(page), languages)
    IN  IF has_perm1.raised \/ ~has_perm1.ret THEN has_perm1
        ELSE Returned(placeholders = {} \/ \E ph \in placeholders :
                          has_delete_plugins_permission(ph, user, languages),
                      has_perm1.cache, has_perm1.eff)

user_can_delete_page_body(user, page, c) ==
    LET has_perm1 == HasGenericPermission(page, user, "delete_page", NoSite, TRUE, c)
        languages == Page[page].languages
        placeholders == FilterByLanguages(GetDraftPlaceholders(page), languages)
    IN  IF has_perm1.raised \/ ~has_perm1.ret THEN has_perm1
        ELSE Returned(\A ph \in placeholders :
                          has_delete_plugins_permission(ph, user, languages),
                      has_perm1.cache, has_perm1.eff)

user_can_delete_page(user, page, c) ==
    permission_pre_checks("delete_page", user, user_can_delete_page_body(user, page, c), c)

user_can_delete_page_translation_body(user, page, language, c) ==
    LET has_perm1 == HasGenericPermission(page, user, "delete_page_translation",
                                          NoSite, TRUE, c)
        placeholders == FilterByLanguages(GetDraftPlaceholders(page), {language})
    IN  IF has_perm1.raised \/ ~has_perm1.ret THEN has_perm1
        ELSE Returned(\A ph \in placeholders :
                          has_delete_plugins_permission(ph, user, {language}),
                      has_perm1.cache, has_perm1.eff)

user_can_delete_page_translation(user, page, language, c) ==
    permission_pre_checks("delete_page_translation", user,
        user_can_delete_page_translation_body(user, page, language, c), c)

user_can_publish_page(user, page, c) ==
    permission_pre_checks("publish_page", user,
        HasGenericPermission(page, user, "publish_page", NoSite, TRUE, c), c)

user_can_change_page_advanced_settings(user, page, c) ==
    permission_pre_checks("change_page_advanced_settings", user,
        HasGenericPermission(page, user, "change_page_advanced_settings",
                             NoSite, TRUE, c), c)

user_can_change_page_permissions(user, page, c) ==
    permission_pre_checks("change_page_permissions", user,
        HasGenericPermission(page, user, "change_page_permissions", NoSite, TRUE, c), c)

user_can_move_page(user, page, c) ==
    permission_pre_checks("move_page", user,
        HasGenericPermission(page, user, "move_page", NoSite, TRUE, c), c)

user_can_change_all_pages(user, site, c) ==
    permission_pre_checks("change_page", user,
        Returned(has_global_permission(user, site, "change_page"), c, {GLOBAL}), c)

user_can_recover_any_page(user, site, c) ==
    permission_pre_checks("recover_page", user,
        Returned(has_global_permission(user, site, "recover_page"), c, {GLOBAL}), c)

\* public_for == 'all' or (public_for == 'staff' and user.is_staff)
can_see_unrestricted(user) ==
    \/ settings.PUBLIC_FOR = "all"
    \/ settings.PUBLIC_FOR = "staff" /\ user.is_staff

user_can_view_all_pages(user, site, c) ==
    IF user.is_superuser THEN Returned(TRUE, c, {})
    ELSE IF ~settings.PERMISSION THEN Returned(can_see_unrestricted(user), c, {})
    ELSE IF ~user.is_authenticated THEN Returned(FALSE, c, {})
    ELSE IF has_perm(user, PAGE_VIEW_CODENAME) THEN Returned(TRUE, c, {})
    ELSE Returned(has_global_permission(user, site, "view_page"), c, {GLOBAL})

\* cms.api.get_page_draft(page)
get_page_draft(page) ==
    IF Page[page].publisher_is_draft THEN page ELSE Page[page].publisher_public_id

\* page.has_view_restrictions(): inherited and direct view permissions
has_view_restrictions(page) == page \in restricted

\* user_can_view_page testing is_authenticated before the unrestricted page
user_can_view_page_auth_first(user, page0, c) ==
    IF user.is_superuser THEN Returned(TRUE, c, {})
    ELSE LET page == get_page_draft(page0)
             is_restricted == has_view_restrictions(page)
             view_all == user_can_view_all_pages(user, Page[page].site, c)
         IN  IF ~user.is_authenticated THEN Returned(FALSE, c, {})
             ELSE IF ~is_restricted /\ can_see_unrestricted(user)
             THEN Returned(TRUE, c, {})
             ELSE IF view_all.ret THEN view_all
             ELSE IF ~is_restricted THEN Returned(FALSE, c, view_all.eff)
             ELSE LET r == HasGenericPermission(page, user, "view_page", NoSite, FALSE, c)
                  IN  [r EXCEPT !.eff = r.eff \cup view_all.eff]

user_can_view_page(user, page0, c) ==
    IF user.is_superuser THEN Returned(TRUE, c, {})
    ELSE LET page == get_page_draft(page0)
             is_restricted == has_view_restrictions(page)
             view_all == user_can_view_all_pages(user, Page[page].site, c)
         IN  IF ~is_restricted /\ can_see_unrestricted(user) THEN Returned(TRUE, c, {})
             ELSE IF ~user.is_authenticated THEN Returned(FALSE, c, {})
             ELSE IF view_all.ret THEN view_all
             ELSE IF ~is_restricted THEN Returned(FALSE, c, view_all.eff)
             ELSE LET r == HasGenericPermission(page, user, "view_page", NoSite, FALSE, c)
                  IN  [r EXCEPT !.eff = r.eff \cup view_all.eff]

-----------------------------------------------------------------------------
(* Principals and grant records *)

UserIds == {1, 2, 3}

\* a principal holds every code, or lacks exactly one
PermSets == {Codenames} \cup {Codenames \ {code} : code \in Codenames}

\* user 1 with every combination of flags
WidePrincipals ==
    [id : {1}, is_superuser : BOOLEAN, is_authenticated : BOOLEAN,
     is_staff : BOOLEAN, perms : PermSets]

Editor(id) ==
    [id |-> id, is_superuser |-> FALSE, is_authenticated |-> TRUE,
     is_staff |-> TRUE, perms |-> Codenames \ {PAGE_VIEW_CODENAME}]

Superuser ==
    [id |-> 3, is_superuser |-> TRUE, is_authenticated |-> TRUE,
     is_staff |-> TRUE, perms |-> Codenames]

\* users 1 and 2 with every combination of flags, with and without the view code
ViewPrincipals ==
    [id : {1, 2}, is_superuser : BOOLEAN, is_authenticated : BOOLEAN,
     is_staff : BOOLEAN, perms : {Codenames, Codenames \ {PAGE_VIEW_CODENAME}}]

\* two editors and a superuser
NarrowPrincipals == {Editor(1), Editor(2), Superuser}

NoGrants == [a \in PageActionKeys |-> {}]

\* user 1 holds page grants on both sites, users 2 and 3 none
FineGrants ==
    [id \in UserIds |-> [site \in Sites |->
        IF id = 1 /\ site = "S1"
        THEN [a \in PageActionKeys |->
                CASE a = "add_page" -> {2}
                  [] a = "change_page" -> {1, 2}
                  [] a = "delete_page" -> {1}
                  [] a = "move_page" -> {2}
                  [] a = "publish_page" -> {1}
                  [] a = "view_page" -> {1}
                  [] OTHER -> {}]
        ELSE IF id = 1 /\ site = "S2"
        THEN [a \in PageActionKeys |->
                CASE a = "change_page" -> {4}
                  [] a = "delete_page" -> {4}
                  [] a = "view_page" -> {4}
                  [] OTHER -> {}]
        ELSE NoGrants]]

\* user 2 holds global grants on site S1 and the publish grant on every site,
\* user 1 one on site S2
SiteGrants ==
    {<<2, "S1", a>> : a \in {"add_page", "change_page", "delete_page",
                              "publish_page", "recover_page", "view_page"}}
    \cup {<<2, "S2", "publish_page">>}
    \cup {<<1, "S2", "move_page">>}

-----------------------------------------------------------------------------
(* The calls *)

NoLang == "None"

NoUser ==
    [id |-> 0, is_superuser |-> FALSE, is_authenticated |-> FALSE,
     is_staff |-> FALSE, perms |-> {}]

NoIds == IdList({})

NoCall ==
    [op |-> "none", user |-> NoUser, page |-> 0, site |-> NoSite, lang |-> NoLang,
     action |-> "none", check_global |-> TRUE, ret |-> FALSE, raised |-> FALSE,
     ids |-> NoIds, eff |-> {}]

EmptyCache == [k \in {} |-> {}]

\* no two requests are inside _get_page_ids_for_action
NoRace ==
    [active |-> FALSE, user |-> NoUser, site |-> NoSite, action |-> "none",
     start |-> EmptyCache,
     proc |-> [r \in {1, 2} |-> [pc |-> "done", check_global |-> TRUE,
                                  page_ids |-> {}, result |-> NoIds]]]

\* one call of a gate or of has_generic_permission, served to its end
Serve(op, user, page, site, lang, action, check_global, out) ==
    /\ Cardinality(DOMAIN out.cache) <= MaxCached
    /\ cache' = out.cache
    /\ last' = [op |-> op, user |-> user, page |-> page, site |-> site, lang |-> lang,
                action |-> action, check_global |-> check_global, ret |-> out.ret,
                raised |-> out.raised, ids |-> NoIds, eff |-> out.eff]
    /\ UNCHANGED <<env, race>>

\* one call of a get_*_id_list getter
ServeGetter(getter, user, site, check_global) ==
    LET out == GetIdList(getter, user, site, check_global, cache)
    IN  /\ Cardinality(DOMAIN out.cache) <= MaxCached
        /\ cache' = out.cache
        /\ last' = [op |-> getter, user |-> user, page |-> 0, site |-> site,
                    lang |-> NoLang, action |-> GetterAction[getter],
                    check_global |-> check_global, ret |-> FALSE, raised |-> FALSE,
                    ids |-> out.ids, eff |-> out.eff]
        /\ UNCHANGED <<env, race>>

UserCanAddPage(Ps) ==
    /\ last = NoCall
    /\ \E user \in Ps, site \in Sites \cup {NoSite} :
        Serve("user_can_add_page", user, 0, site, NoLang, "add_page", TRUE,
              user_can_add_page(user, site, cache))

UserCanAddSubpage(Ps) ==
    /\ last = NoCall
    /\ \E user \in Ps, target \in PageIds, site \in Sites \cup {NoSite} :
        Serve("user_can_add_subpage", user, target, site, NoLang, "add_page", TRUE,
              user_can_add_subpage(user, target, site, cache))

UserCanChangePage(Ps) ==
    /\ last = NoCall
    /\ \E user \in Ps, page \in PageIds :
        Serve("user_can_change_page", user, page, NoSite, NoLang, "change_page", TRUE,
              user_can_change_page(user, page, cache))

UserCanDeletePage(Ps) ==
    /\ last = NoCall
    /\ \E user \in Ps, page \in PageIds :
        Serve("user_can_delete_page", user, page, NoSite, NoLang, "delete_page", TRUE,
              user_can_delete_page(user, page, cache))

UserCanDeletePageTranslation(Ps) ==
    /\ last = NoCall
    /\ \E user \in Ps, page \in PageIds, language \in Languages :
        Serve("user_can_delete_page_translation", user, page, NoSite, language,
              "delete_page_translation", TRUE,
              user_can_delete_page_translation(user, page, language, cache))

UserCanPublishPage(Ps) ==
    /\ last = NoCall
    /\ \E user \in Ps, page \in PageIds :
        Serve("user_can_publish_page", user, page, NoSite, NoLang, "publish_page", TRUE,
              user_can_publish_page(user, page, cache))

UserCanChangePageAdvancedSettings(Ps) ==
    /\ last = NoCall
    /\ \E user \in Ps, page \in PageIds :
        Serve("user_can_change_page_advanced_settings", user, page, NoSite, NoLang,
              "change_page_advanced_settings", TRUE,
              user_can_change_page_advanced_settings(user, page, cache))

UserCanChangePagePermissions(Ps) ==
    /\ last = NoCall
    /\ \E user \in Ps, page \in PageIds :
        Serve("user_can_change_page_permissions", user, page, NoSite, NoLang,
              "change_page_permissions", TRUE,
              user_can_change_page_permissions(user, page, cache))

UserCanMovePage(Ps) ==
    /\ last = NoCall
    /\ \E user \in Ps, page \in PageIds :
        Serve("user_can_move_page", user, page, NoSite, NoLang, "move_page", TRUE,
              user_can_move_page(user, page, cache))

UserCanViewPage(Ps) ==
    /\ last = NoCall
    /\ \E user \in Ps, page \in PageIds :
        Serve("user_can_view_page", user, page, NoSite, NoLang, "view_page", FALSE,
              user_can_view_page(user, page, cache))

UserCanChangeAllPages(Ps) ==
    /\ last = NoCall
    /\ \E user \in Ps, site \in Sites :
        Serve("user_can_change_all_pages", user, 0, site, NoLang, "change_page", TRUE,
              user_can_change_all_pages(user, site, cache))

UserCanRecoverAnyPage(Ps) ==
    /\ last = NoCall
    /\ \E user \in Ps, site \in Sites :
        Serve("user_can_recover_any_page", user, 0, site, NoLang, "recover_page", TRUE,
              user_can_recover_any_page(user, site, cache))

UserCanViewAllPages(Ps) ==
    /\ last = NoCall
    /\ \E user \in Ps, site \in Sites :
        Serve("user_can_view_all_pages", user, 0, site, NoLang, "view_page", TRUE,
              user_can_view_all_pages(user, site, cache))

CallHasGenericPermission(Ps) ==
    /\ last = NoCall
    /\ \E user \in Ps, page \in PageIds, action \in ActionNames,
          site \in Sites \cup {NoSite}, check_global \in BOOLEAN :
        Serve("has_generic_permission", user, page, site, NoLang, action, check_global,
              HasGenericPermission(page, user, action, site, check_global, cache))

CallGetIdList(Ps) ==
    /\ last = NoCall
    /\ \E getter \in Getters, user \in Ps, site \in Sites, check_global \in BOOLEAN :
        ServeGetter(getter, user, site, check_global)

\* the call returns: the request and its principal object are over
Return ==
    /\ last # NoCall
    /\ last' = NoCall
    /\ UNCHANGED <<env, cache, race>>

\* the cache is invalidated from outside, between requests
Invalidate ==
    /\ last = NoCall
    /\ race = NoRace
    /\ cache # EmptyCache
    /\ cache' = EmptyCache
    /\ UNCHANGED <<env, last, race>>

-----------------------------------------------------------------------------
(* Two requests inside _get_page_ids_for_action at once *)

Requests == {1, 2}

\* the getters the two requests call
RaceGetters == {"get_change_id_list", "get_publish_id_list", "get_view_id_list"}

\* both requests enter with the same user, site and action; start is the cache
\* they found
RaceBegin ==
    /\ last = NoCall
    /\ race = NoRace
    /\ \E user \in NarrowPrincipals, getter \in RaceGetters, site \in Sites,
          check_global \in [Requests -> BOOLEAN] :
        /\ Cardinality(DOMAIN cache \cup {CacheKey(user, GetterAction[getter])})
               <= MaxCached
        /\ race' = [active |-> TRUE, user |-> user, site |-> site,
                    action |-> GetterAction[getter], start |-> cache,
                    proc |-> [r \in Requests |->
                                [pc |-> "enter", check_global |-> check_global[r],
                                 page_ids |-> {}, result |-> NoIds]]]
    /\ UNCHANGED <<env, cache, last>>

\* request r moves to pc, with its local page_ids and its return value
RaceStep(r, pc, page_ids, result) ==
    race' = [race EXCEPT !.proc[r] = [@ EXCEPT !.pc = pc, !.page_ids = page_ids,
                                               !.result = result]]

\* line 48: superuser, or permissions are not enabled
RaceEnter(r) ==
    /\ race.active /\ race.proc[r].pc = "enter"
    /\ IF race.user.is_superuser \/ ~settings.PERMISSION
       THEN RaceStep(r, "done", {}, GRANT_ALL_PERMISSIONS)
       ELSE RaceStep(r, "cache_get", {}, NoIds)
    /\ UNCHANGED <<env, cache, last>>

\* lines 54-57: read the cache, return what is there
RaceCacheGet(r) ==
    /\ race.active /\ race.proc[r].pc = "cache_get"
    /\ IF IsCached(cache, race.user, race.action)
       THEN RaceStep(r, "done", {},
                     IdList(get_permission_cache(cache, race.user, race.action)))
       ELSE RaceStep(r, "global", {}, NoIds)
    /\ UNCHANGED <<env, cache, last>>

\* lines 59-60: the global grant, when asked for
RaceGlobalCheck(r) ==
    /\ race.active /\ race.proc[r].pc = "global"
    /\ IF /\ race.proc[r].check_global
          /\ has_global_permission(race.user, race.site, race.action)
       THEN RaceStep(r, "done", {}, GRANT_ALL_PERMISSIONS)
       ELSE RaceStep(r, "aggregate", {}, NoIds)
    /\ UNCHANGED <<env, cache, last>>

\* lines 62-63: aggregate the page grants
RaceAggregate(r) ==
    /\ race.active /\ race.proc[r].pc = "aggregate"
    /\ RaceStep(r, "cache_set",
                get_page_actions_for_user(race.user, race.site)[race.action], NoIds)
    /\ UNCHANGED <<env, cache, last>>

\* lines 64-65: write the cache, return the list
RaceCacheSet(r) ==
    /\ race.active /\ race.proc[r].pc = "cache_set"
    /\ cache' = set_permission_cache(cache, race.user, race.action,
                                     race.proc[r].page_ids)
    /\ RaceStep(r, "done", race.proc[r].page_ids, IdList(race.proc[r].page_ids))
    /\ UNCHANGED <<env, last>>

\* both requests have returned
RaceEnd ==
    /\ race.active
    /\ \A r \in Requests : race.proc[r].pc = "done"
    /\ race' = NoRace
    /\ UNCHANGED <<env, cache, last>>

-----------------------------------------------------------------------------
(* Specifications *)

SettingsSet == [PERMISSION : BOOLEAN, PUBLIC_FOR : {"all", "staff", "none"}]

InitOver(Settings, Restricted, Denied) ==
    /\ settings \in Settings
    /\ restricted \in Restricted
    /\ denied \in Denied
    /\ globalGrants = SiteGrants
    /\ pageActions = FineGrants
    /\ cache = EmptyCache
    /\ last = NoCall
    /\ race = NoRace

\* every gate, called by a principal of Ps
Gates(Ps) ==
    \/ UserCanAddPage(Ps)
    \/ UserCanAddSubpage(Ps)
    \/ UserCanChangePage(Ps)
    \/ UserCanDeletePage(Ps)
    \/ UserCanDeletePageTranslation(Ps)
    \/ UserCanPublishPage(Ps)
    \/ UserCanChangePageAdvancedSettings(Ps)
    \/ UserCanChangePagePermissions(Ps)
    \/ UserCanMovePage(Ps)
    \/ UserCanViewPage(Ps)
    \/ UserCanChangeAllPages(Ps)
    \/ UserCanRecoverAnyPage(Ps)
    \/ UserCanViewAllPages(Ps)

\* the gates under every combination of principal flags
Init == InitOver(SettingsSet, {{1, 2}}, {{<<"sidebar", "de">>}})

Next == Gates(WidePrincipals) \/ Return \/ Invalidate

Spec == Init /\ [][Next]_vars

\* the resolver, called directly by two editors and a superuser
InitRes ==
    InitOver({st \in SettingsSet : st.PUBLIC_FOR = "all"}, {{1, 2}},
             {{<<"sidebar", "de">>}})

NextRes ==
    \/ CallHasGenericPermission(NarrowPrincipals)
    \/ CallGetIdList(NarrowPrincipals)
    \/ Return
    \/ Invalidate

SpecRes == InitRes /\ [][NextRes]_vars

\* the view gates, under every restriction state
InitView == InitOver(SettingsSet, SUBSET DraftIds, {{<<"sidebar", "de">>}})

NextView ==
    \/ UserCanViewPage(ViewPrincipals)
    \/ UserCanViewAllPages(ViewPrincipals)
    \/ Return
    \/ Invalidate

SpecView == InitView /\ [][NextView]_vars

\* the plugins a placeholder holds, any of which may be refused
PluginLanguages ==
    {<<ph, l>> : ph \in PlaceholderIds, l \in Languages} \cap
    {pl \in PlaceholderIds \X Languages : pl[2] \in Placeholder[pl[1]].plugin_languages}

\* the delete gates, under every plugin permission
InitDelete ==
    InitOver({st \in SettingsSet : st.PUBLIC_FOR = "all"}, {{1, 2}},
             SUBSET PluginLanguages)

\* two editors, a superuser, a logged-out user and an editor without the delete code
DeletePrincipals ==
    NarrowPrincipals \cup
    {[Editor(2) EXCEPT !.is_authenticated = FALSE],
     [Editor(1) EXCEPT !.perms = @ \ {PAGE_DELETE_CODENAME}]}

NextDelete ==
    \/ UserCanDeletePage(DeletePrincipals)
    \/ UserCanDeletePageTranslation(DeletePrincipals)
    \/ Return
    \/ Invalidate

SpecDelete == InitDelete /\ [][NextDelete]_vars

\* two requests resolving the same grant set at once
InitRace ==
    InitOver({st \in SettingsSet : st.PUBLIC_FOR = "all"}, {{1, 2}},
             {{<<"sidebar", "de">>}})

NextRace ==
    \/ RaceBegin
    \/ \E r \in Requests :
          \/ RaceEnter(r)
          \/ RaceCacheGet(r)
          \/ RaceGlobalCheck(r)
          \/ RaceAggregate(r)
          \/ RaceCacheSet(r)
    \/ RaceEnd
    \/ Invalidate

SpecRace == InitRace /\ [][NextRace]_vars

-----------------------------------------------------------------------------
(* Claims about the pre-checks *)

\* the gates wrapped by permission_pre_checks
PreCheckedGates ==
    {"user_can_add_page", "user_can_add_subpage", "user_can_change_page",
     "user_can_delete_page", "user_can_delete_page_translation",
     "user_can_publish_page", "user_can_change_page_advanced_settings",
     "user_can_change_page_permissions", "user_can_move_page",
     "user_can_change_all_pages", "user_can_recover_any_page"}

ViewGates == {"user_can_view_page", "user_can_view_all_pages"}

GateNames == PreCheckedGates \cup ViewGates

\* C1 as stated: every gate allows a superuser, whatever its other flags are
C1_SuperuserAlwaysAllowed ==
    (last.op \in GateNames /\ last.user.is_superuser) => last.ret

\* C1, amended: every gate allows an authenticated superuser, and the two view
\* gates allow a superuser whatever is_authenticated is
C1_SuperuserAllowed ==
    (/\ last.op \in GateNames
     /\ last.user.is_superuser
     /\ last.user.is_authenticated \/ last.op \in ViewGates)
    => last.ret /\ ~last.raised

\* a superuser without the publish code is allowed to publish a page it holds no
\* grant for, with permissions enabled and a cache that is not empty
C1_Witness ==
    /\ last.op = "user_can_publish_page"
    /\ last.page = 4
    /\ last.user.is_superuser /\ last.user.is_authenticated
    /\ PAGE_PUBLISH_CODENAME \notin last.user.perms
    /\ settings.PERMISSION
    /\ cache # EmptyCache
    /\ last.ret

\* C2 as stated: every gate, the view gates included, denies an unauthenticated
\* principal
C2_UnauthenticatedAlwaysDenied ==
    (last.op \in GateNames /\ ~last.user.is_authenticated) => ~last.ret

\* C2, amended: for an unauthenticated principal a pre-checked gate denies;
\* user_can_view_page allows exactly a superuser or an unrestricted page that
\* PUBLIC_FOR opens to the principal; user_can_view_all_pages allows exactly a
\* superuser or, with PERMISSION off, a principal PUBLIC_FOR opens pages to
C2_UnauthenticatedDenied ==
    (last.op \in GateNames /\ ~last.user.is_authenticated) =>
        /\ ~last.raised
        /\ last.op \in PreCheckedGates => ~last.ret
        /\ last.op = "user_can_view_page" =>
              last.ret = (\/ last.user.is_superuser
                          \/ /\ ~has_view_restrictions(get_page_draft(last.page))
                             /\ can_see_unrestricted(last.user))
        /\ last.op = "user_can_view_all_pages" =>
              last.ret = (\/ last.user.is_superuser
                          \/ ~settings.PERMISSION /\ can_see_unrestricted(last.user))

\* an unauthenticated superuser holding every code is denied a page change
C2_Witness ==
    /\ last.op = "user_can_change_page"
    /\ ~last.user.is_authenticated
    /\ last.user.is_superuser
    /\ last.user.perms = Codenames
    /\ ~last.ret

\* C9: a pre-checked gate denies an authenticated principal that is no superuser
\* and lacks one of the codes the registry lists for the gate's action
C9_MissingCodeDenies ==
    (/\ last.op \in PreCheckedGates
     /\ last.user.is_authenticated
     /\ ~last.user.is_superuser
     /\ ~(DjangoPermissionsByAction[last.action] \subseteq last.user.perms))
    => ~last.ret /\ ~last.raised

\* user 1 holds the page grant to add below page 2 and the change code, lacks the
\* add code, and is denied
C9_Witness ==
    /\ last.op = "user_can_add_subpage"
    /\ last.page = 2
    /\ last.site = NoSite
    /\ last.user.is_authenticated /\ ~last.user.is_superuser
    /\ last.user.perms = Codenames \ {PAGE_ADD_CODENAME}
    /\ settings.PERMISSION
    /\ 2 \in pageActions[last.user.id]["S1"]["add_page"]
    /\ ~last.ret

\* C10: with PERMISSION off a pre-checked gate allows an authenticated principal
\* holding the codes of the action, and its body is not run
C10_DisabledAllows ==
    (/\ last.op \in PreCheckedGates
     /\ ~settings.PERMISSION
     /\ last.user.is_authenticated
     /\ DjangoPermissionsByAction[last.action] \subseteq last.user.perms)
    => last.ret /\ ~last.raised /\ last.eff = {}

\* with PERMISSION off user 1 may delete page 1, whose sidebar refuses, and may
\* add pages on a site it holds no global grant for
C10_Witness ==
    /\ ~settings.PERMISSION
    /\ ~last.user.is_superuser /\ last.user.is_authenticated
    /\ \/ /\ last.op = "user_can_delete_page"
          /\ last.page = 1
          /\ <<"sidebar", "de">> \in denied
       \/ /\ last.op = "user_can_add_page"
          /\ last.site = "S1"
          /\ ~has_global_permission(last.user, "S1", "add_page")
    /\ last.ret

-----------------------------------------------------------------------------
(* Claims about the resolver *)

\* the site has_generic_permission resolves for
SiteOf(call) == IF call.site = NoSite THEN Page[call.page].site ELSE call.site

\* the action whose grant set the dispatch table resolves for an action:
\* delete_page_translation shares the getter of delete_page
GrantActionOf(action) ==
    IF action = "delete_page_translation" THEN "delete_page" ELSE action

\* the grant set resolved for a has_generic_permission call on cache c
GrantSetOf(call, c) ==
    GetPageIdsForAction(call.user, SiteOf(call), GrantActionOf(call.action),
                        call.check_global, c).ids

\* the identity of a page: a draft's own pk, a published page's draft
IdentityOf(page) == IF page = 3 THEN 1 ELSE page

\* a has_generic_permission call returned true exactly when the grant set is ALL
\* or holds the page's identity
MembershipOf(call, c) ==
    /\ ~call.raised
    /\ call.ret = (GrantSetOf(call, c).all \/ IdentityOf(call.page) \in GrantSetOf(call, c).ids)

\* C3 as stated: for every action of the registry has_generic_permission returns
\* the membership of the page's identity in the action's grant set
C3_RegistryMembership ==
    [][(last'.op = "has_generic_permission" /\ last'.action \in RegistryActions)
       => MembershipOf(last', cache)]_vars

\* C3, amended: the same for every action of the dispatch table of
\* has_generic_permission, where delete_page_translation resolves the grant set
\* of delete_page
C3_DispatchMembership ==
    [][(last'.op = "has_generic_permission" /\ last'.action \in DispatchActions)
       => MembershipOf(last', cache)]_vars

\* user 1 is allowed to delete a translation of the published page 3 by the
\* delete grant list holding its draft, and refused page 2 by the same list
C3_Witness ==
    /\ last.op = "has_generic_permission"
    /\ last.action = "delete_page_translation"
    /\ last.user = Editor(1)
    /\ <<1, "delete_page">> \in DOMAIN cache
    /\ \/ last.page = 3 /\ last.ret
       \/ last.page = 2 /\ ~last.ret /\ cache[<<1, "delete_page">>] # {}

\* C4: an explicit grant set a getter returns for site S is the one
\* get_page_actions_for_user computes for S
C4_ScopedResult ==
    (last.op \in Getters /\ ~last.ids.all)
    => last.ids.ids = pageActions[last.user.id][last.site][last.action]

\* C5: a resolver call that finds (principal, action) cached returns the cached
\* grant set, calls get_page_actions_for_user no more and writes nothing
C5_CacheHit ==
    [][(last'.op \in Getters /\ <<last'.user.id, last'.action>> \in DOMAIN cache)
       => /\ last'.ids = IdList(cache[<<last'.user.id, last'.action>>])
          /\ AGGREGATE \notin last'.eff
          /\ CACHE_SET \notin last'.eff
          /\ cache' = cache]_vars

\* user 2 asks for the change list a second time and is served the cached empty
\* list by a cache read alone
C5_Witness ==
    /\ last.op = "get_change_id_list"
    /\ last.user = Editor(2)
    /\ last.eff = {CACHE_GET}
    /\ <<2, "change_page">> \in DOMAIN cache
    /\ last.ids = IdList(cache[<<2, "change_page">>])
    /\ last.ids = IdList({})

-----------------------------------------------------------------------------
(* Claims about the gates' bodies *)

\* the gates that take a page
PageGates ==
    {"user_can_add_subpage", "user_can_change_page", "user_can_delete_page",
     "user_can_delete_page_translation", "user_can_publish_page",
     "user_can_change_page_advanced_settings", "user_can_change_page_permissions",
     "user_can_move_page", "user_can_view_page"}

\* the outcome of a page-taking gate on cache c
GateOutcome(op, user, page, site, lang, c) ==
    CASE op = "user_can_add_subpage" -> user_can_add_subpage(user, page, site, c)
      [] op = "user_can_change_page" -> user_can_change_page(user, page, c)
      [] op = "user_can_delete_page" -> user_can_delete_page(user, page, c)
      [] op = "user_can_delete_page_translation" ->
            user_can_delete_page_translation(user, page, lang, c)
      [] op = "user_can_publish_page" -> user_can_publish_page(user, page, c)
      [] op = "user_can_change_page_advanced_settings" ->
            user_can_change_page_advanced_settings(user, page, c)
      [] op = "user_can_change_page_permissions" ->
            user_can_change_page_permissions(user, page, c)
      [] op = "user_can_move_page" -> user_can_move_page(user, page, c)
      [] op = "user_can_view_page" -> user_can_view_page(user, page, c)

\* C6: the outcome a page-taking gate gave for a published page is the outcome
\* the same call gives for the page's draft
C6_DraftPublishedEquivalence ==
    (last.op \in PageGates /\ ~Page[last.page].publisher_is_draft)
    => GateOutcome(last.op, last.user, Page[last.page].publisher_public_id,
                   last.site, last.lang, cache).ret = last.ret

\* PUBLIC_FOR opens unrestricted pages to the principal
OpenTo(user) ==
    \/ settings.PUBLIC_FOR = "all"
    \/ settings.PUBLIC_FOR = "staff" /\ user.is_staff

\* C7 as stated, read with PERMISSION on: step 4 is a global view grant for the
\* page's site, step 6 a page grant get_page_actions_for_user reports for the page
C7_ViewRuleAsStated ==
    (last.op = "user_can_view_page" /\ settings.PERMISSION) =>
        LET page == IdentityOf(last.page)
            user == last.user
        IN  last.ret =
              IF user.is_superuser THEN TRUE
              ELSE IF page \notin restricted /\ OpenTo(user) THEN TRUE
              ELSE IF ~user.is_authenticated THEN FALSE
              ELSE IF <<user.id, Page[page].site, "view_page">> \in globalGrants THEN TRUE
              ELSE IF page \notin restricted THEN FALSE
              ELSE page \in pageActions[user.id][Page[page].site]["view_page"]

\* step 4 as the code takes it: user_can_view_all_pages
ViewsAllPages(user, site) ==
    \/ user.is_superuser
    \/ ~settings.PERMISSION /\ OpenTo(user)
    \/ /\ settings.PERMISSION
       /\ user.is_authenticated
       /\ \/ PAGE_VIEW_CODENAME \in user.perms
          \/ <<user.id, site, "view_page">> \in globalGrants

\* step 6 as the code takes it: the view grant set resolved without the global
\* check, on cache c, holds the page
ViewGrantResolved(user, page, c) ==
    \/ ~settings.PERMISSION
    \/ IF <<user.id, "view_page">> \in DOMAIN c
       THEN page \in c[<<user.id, "view_page">>]
       ELSE page \in pageActions[user.id][Page[page].site]["view_page"]

\* C7, amended: the ordered rule with step 4 decided by user_can_view_all_pages
\* and step 6 by the view grant set resolved without the global check
C7_ViewRule ==
    [][last'.op = "user_can_view_page" =>
        LET page == IdentityOf(last'.page)
            user == last'.user
        IN  /\ ~last'.raised
            /\ last'.ret =
                 IF user.is_superuser THEN TRUE
                 ELSE IF page \notin restricted /\ OpenTo(user) THEN TRUE
                 ELSE IF ~user.is_authenticated THEN FALSE
                 ELSE IF ViewsAllPages(user, Page[page].site) THEN TRUE
                 ELSE IF page \notin restricted THEN FALSE
                 ELSE ViewGrantResolved(user, page, cache)]_vars

\* an authenticated principal without the view code and without a global grant
\* is shown the restricted published page 3 by its page grant on the draft
C7_Witness ==
    /\ last.op = "user_can_view_page"
    /\ last.page = 3
    /\ 1 \in restricted
    /\ settings.PERMISSION
    /\ settings.PUBLIC_FOR = "staff"
    /\ last.user.is_authenticated /\ ~last.user.is_superuser /\ ~last.user.is_staff
    /\ PAGE_VIEW_CODENAME \notin last.user.perms
    /\ ~has_global_permission(last.user, "S1", "view_page")
    /\ AGGREGATE \in last.eff
    /\ last.ret

\* the base delete grant: has_generic_permission for delete_page on cache c
BaseDeleteGrant(user, page, c) ==
    LET g == GetPageIdsForAction(user, Page[page].site, "delete_page", TRUE, c).ids
    IN  g.all \/ IdentityOf(page) \in g.ids

\* the draft placeholders of a page holding plugins in one of the languages
DraftUnits(page, languages) ==
    {ph \in PlaceholderIds :
        /\ Placeholder[ph].page = IdentityOf(page)
        /\ Placeholder[ph].plugin_languages \cap languages # {}}

\* C8: for an authenticated principal that is no superuser and holds the delete
\* codes, with PERMISSION on, user_can_delete_page is true exactly when the base
\* delete grant covers the page and every draft placeholder holding plugins in a
\* language of the page allows deleting the plugins of those languages
C8_DeleteNeedsEveryUnit ==
    [][(/\ last'.op = "user_can_delete_page"
        /\ last'.user.is_authenticated
        /\ ~last'.user.is_superuser
        /\ {PAGE_CHANGE_CODENAME, PAGE_DELETE_CODENAME} \subseteq last'.user.perms
        /\ settings.PERMISSION)
       => /\ ~last'.raised
          /\ last'.ret =
               (/\ BaseDeleteGrant(last'.user, last'.page, cache)
                /\ \A ph \in DraftUnits(last'.page, Page[last'.page].languages) :
                      has_delete_plugins_permission(ph, last'.user,
                                                    Page[last'.page].languages))]_vars

\* user 1 holds the base delete grant for page 1, the content placeholder allows,
\* the sidebar refuses, and the delete is denied
C8_Witness ==
    /\ last.op = "user_can_delete_page"
    /\ last.page = 1
    /\ last.user = Editor(1)
    /\ settings.PERMISSION
    /\ 1 \in pageActions[1]["S1"]["delete_page"]
    /\ denied = {<<"sidebar", "de">>}
    /\ ~last.ret

-----------------------------------------------------------------------------
(* Claims about the grant-all mark and the dispatch table *)

\* the calls that resolve a grant set: the getters, and has_generic_permission
\* for an action of its table
ResolvingCall(call) ==
    \/ call.op \in Getters
    \/ call.op = "has_generic_permission" /\ call.action \in DispatchActions

\* the principal has no page grant for the action on any site
NoPageGrants(user, action) ==
    \A s \in Sites : pageActions[user.id][s][action] = {}

\* C11: for a principal that is no superuser, with PERMISSION on, without a page
\* grant for the action and without a global grant to find, the resolver yields
\* the empty list, leaves it in the cache, serves it from the cache when it is
\* there, and has_generic_permission is false for every page; a grant set that is
\* the grant-all mark makes has_generic_permission true for every page
C11_EmptyIsNotAll ==
    [][LET call == last'
           action == GrantActionOf(call.action)
           key == <<call.user.id, action>>
           resolvable == ~call.user.is_superuser /\ settings.PERMISSION
           grant_all ==
               \/ ~resolvable
               \/ /\ key \notin DOMAIN cache
                  /\ call.check_global
                  /\ <<call.user.id, SiteOf(call), action>> \in globalGrants
       IN  /\ (ResolvingCall(call) /\ resolvable /\ ~grant_all
                 /\ NoPageGrants(call.user, action))
              => /\ key \in DOMAIN cache' /\ cache'[key] = {}
                 /\ call.op \in Getters => call.ids = [all |-> FALSE, ids |-> {}]
                 /\ call.op = "has_generic_permission" => ~call.raised /\ ~call.ret
                 /\ key \in DOMAIN cache
                    => cache' = cache /\ call.eff \subseteq {CACHE_GET, GENERIC}
           /\ (ResolvingCall(call) /\ grant_all)
              => /\ call.op \in Getters => call.ids.all
                 /\ call.op = "has_generic_permission" => ~call.raised /\ call.ret
      ]_vars

\* user 2, who has no page grant, is refused page 4 by the empty move list served
\* from the cache
C11_Witness ==
    /\ last.op = "has_generic_permission"
    /\ last.action = "move_page"
    /\ last.user = Editor(2)
    /\ last.page = 4
    /\ settings.PERMISSION
    /\ last.eff = {CACHE_GET, GENERIC}
    /\ cache[<<2, "move_page">>] = {}
    /\ ~last.ret

\* C12: for an authenticated principal that is no superuser and cannot view all
\* pages, with PERMISSION on, whatever calls went before, user_can_view_page on
\* a restricted page is true when the principal has a view grant for the page
\* and false when it has none
C12_PageGrantDecidesView ==
    LET page == IdentityOf(last.page)
    IN  (/\ last.op = "user_can_view_page"
         /\ settings.PERMISSION
         /\ last.user.is_authenticated
         /\ ~last.user.is_superuser
         /\ ~ViewsAllPages(last.user, Page[page].site)
         /\ page \in restricted)
        => last.ret = (page \in pageActions[last.user.id][Page[page].site]["view_page"])

\* C13: has_generic_permission for an action its dispatch table lacks, recover_page
\* included, raises for every principal and leaves the cache as it was
C13_UnknownActionRaises ==
    [][(last'.op = "has_generic_permission" /\ last'.action \notin DispatchActions)
       => /\ last'.raised
          /\ cache' = cache
          /\ last'.eff = {GENERIC}]_vars

\* a superuser asks for recover_page, which the registry lists, over a cache that
\* holds an entry, and the call raises
C13_Witness ==
    /\ last.op = "has_generic_permission"
    /\ last.action = "recover_page"
    /\ last.action \in RegistryActions
    /\ last.user = Superuser
    /\ cache # EmptyCache
    /\ last.raised

-----------------------------------------------------------------------------
(* Claims about concurrent and repeated resolution *)

\* the grant set a request returns when it runs alone on cache c
AloneResult(r, c) ==
    GetPageIdsForAction(race.user, race.site, race.action,
                        race.proc[r].check_global, c).ids

\* C14: each of two requests resolving the same user, action and site at once
\* returns the grant set it returns when run alone on the cache the two found,
\* and a list written to the cache is the one the other request would write
C14_RaceAsAlone ==
    race.active =>
        /\ \A r \in Requests :
              race.proc[r].pc = "done" => race.proc[r].result = AloneResult(r, race.start)
        /\ (/\ CacheKey(race.user, race.action) \in DOMAIN cache
            /\ CacheKey(race.user, race.action) \notin DOMAIN race.start)
           => cache[CacheKey(race.user, race.action)]
                = pageActions[race.user.id][race.site][race.action]

\* the principal holds a global grant for the action on every site
GlobalEverywhere(user, action) ==
    \A s \in Sites : <<user.id, s, action>> \in globalGrants

\* C15, for a principal holding a global grant for the action on every site: with
\* PERMISSION on, a call with check_global true obtains the grant-all mark, as it
\* does when no call with check_global false went before
C15_GlobalGrantStillAll ==
    (/\ ResolvingCall(last)
     /\ last.check_global
     /\ ~last.user.is_superuser
     /\ settings.PERMISSION
     /\ GlobalEverywhere(last.user, GrantActionOf(last.action)))
    => /\ last.op \in Getters => last.ids.all
       /\ last.op = "has_generic_permission" => last.ret

\* C16: what the resolver leaves in the cache is a list of page ids; a grant-all
\* mark is returned with no cache write; and a call with check_global false for
\* a principal that is no superuser, with PERMISSION on, never returns the mark
C16_AllIsNeverCached ==
    [][last'.op \in Getters =>
        /\ \A k \in DOMAIN cache' : cache'[k] \subseteq PageIds
        /\ last'.ids.all => cache' = cache /\ CACHE_SET \notin last'.eff
        /\ CACHE_SET \in last'.eff
           => /\ ~last'.ids.all
              /\ cache'[<<last'.user.id, last'.action>>] = last'.ids.ids
        /\ (~last'.check_global /\ ~last'.user.is_superuser /\ settings.PERMISSION)
           => ~last'.ids.all]_vars

\* user 2 asks for the change list of site S1, where it holds the global grant,
\* over a cache holding another entry: the grant-all mark is returned and no
\* entry is written for it
C16_Witness ==
    /\ last.op = "get_change_id_list"
    /\ last.user = Editor(2)
    /\ last.site = "S1"
    /\ settings.PERMISSION
    /\ last.check_global
    /\ last.ids.all
    /\ GLOBAL \in last.eff
    /\ cache # EmptyCache
    /\ <<2, "change_page">> \notin DOMAIN cache

\* a logged-out user, a superuser, an editor without the delete code, an editor
FastPrincipals ==
    {[Editor(2) EXCEPT !.is_authenticated = FALSE], Superuser,
     [Editor(1) EXCEPT !.perms = @ \ {PAGE_DELETE_CODENAME}], Editor(1)}

\* the getters and the gates, called by principals the fast paths decide and by
\* one they do not
InitFast ==
    InitOver({st \in SettingsSet : st.PUBLIC_FOR = "all"}, {{1, 2}},
             {{<<"sidebar", "de">>}})

NextFast ==
    \/ CallGetIdList(FastPrincipals)
    \/ Gates(FastPrincipals)
    \/ Return
    \/ Invalidate

SpecFast == InitFast /\ [][NextFast]_vars

\* C17: a resolver call for a superuser or with PERMISSION off returns the
\* grant-all mark, and a gate call decided by the pre-checks returns, without a
\* cache read or write and without a call of has_global_permission or
\* get_page_actions_for_user; the cache is as it was
C17_FastPathsLeaveCache ==
    [][/\ (last'.op \in Getters /\ (last'.user.is_superuser \/ ~settings.PERMISSION))
          => /\ last'.ids = GRANT_ALL_PERMISSIONS
             /\ last'.eff = {}
             /\ cache' = cache
       /\ (/\ last'.op \in PreCheckedGates
           /\ \/ ~last'.user.is_authenticated
              \/ last'.user.is_superuser
              \/ ~(DjangoPermissionsByAction[last'.action] \subseteq last'.user.perms)
              \/ ~settings.PERMISSION)
          => /\ ~last'.raised
             /\ last'.eff = {}
             /\ cache' = cache]_vars

\* a superuser asks for the delete list, with PERMISSION on and an entry in the
\* cache: the grant-all mark comes back with no collaborator called
C17_Witness ==
    /\ last.op = "get_delete_id_list"
    /\ last.user = Superuser
    /\ settings.PERMISSION
    /\ cache # EmptyCache
    /\ last.ids = GRANT_ALL_PERMISSIONS
    /\ last.eff = {}

-----------------------------------------------------------------------------
(* Claims about delete-translation *)

\* the base grant tests of delete-translation and of delete agree on cache c
SameBaseGrant(user, page, c) ==
    HasGenericPermission(page, user, "delete_page_translation", NoSite, TRUE, c).ret
        = HasGenericPermission(page, user, "delete_page", NoSite, TRUE, c).ret

\* the outcome of delete restricted to one language: the base delete grant passes
\* and every draft placeholder holding plugins in the language allows deleting them
DeleteInLanguage(user, page, language, c) ==
    /\ BaseDeleteGrant(user, page, c)
    /\ \A ph \in DraftUnits(page, {language}) :
          has_delete_plugins_permission(ph, user, {language})

\* C18 as stated: for every principal user_can_delete_page_translation is delete
\* restricted to the one language
C18_TranslationForEveryPrincipal ==
    [][last'.op = "user_can_delete_page_translation"
       => /\ SameBaseGrant(last'.user, last'.page, cache)
          /\ ~last'.raised
          /\ last'.ret = DeleteInLanguage(last'.user, last'.page, last'.lang, cache)]_vars

\* C18, amended: the base grant tests agree for every principal, and for an
\* authenticated principal that is no superuser and holds the delete codes, with
\* PERMISSION on, user_can_delete_page_translation is delete restricted to the
\* one language
C18_TranslationIsDeleteInLanguage ==
    [][last'.op = "user_can_delete_page_translation"
       => /\ SameBaseGrant(last'.user, last'.page, cache)
          /\ ~last'.raised
          /\ (/\ last'.user.is_authenticated
              /\ ~last'.user.is_superuser
              /\ {PAGE_CHANGE_CODENAME, PAGE_DELETE_CODENAME} \subseteq last'.user.perms
              /\ settings.PERMISSION)
             => last'.ret = DeleteInLanguage(last'.user, last'.page, last'.lang,
                                             cache)]_vars

\* user 1, holding the delete grant for page 1, may delete its English translation
\* although the sidebar refuses the German one
C18_Witness ==
    /\ last.op = "user_can_delete_page_translation"
    /\ last.user = Editor(1)
    /\ last.page = 1
    /\ last.lang = "en"
    /\ settings.PERMISSION
    /\ denied = {<<"sidebar", "de">>}
    /\ cache = (<<1, "delete_page">> :> {1})
    /\ last.ret

====
